---- MODULE Spec2Model ----
(***************************************************************************)
(* Gift certificate checkout: payment-instrument reconciliation on a       *)
(* basket (createGiftCertificatePaymentInstrument,                         *)
(* removeGiftCertificatePaymentInstrument, calculatePaymentTransaction)    *)
(* and order finalization (placeOrder).  Money values are integers (minor  *)
(* currency units) of one currency.                                        *)
(***************************************************************************)
EXTENDS Integers, Sequences, FiniteSets, TLC

\* ------------------------------------------------------------------ bounds
MaxTotal == 2
MaxBalance == 1
MaxItems == 2
MaxPrice == 2
MaxDup == 2
MaxQuantity == 2

\* Gift certificate codes known to the shop.
Codes == {"GC1", "GC2"}

\* null, where a gift certificate is expected
Null == "null"

\* dw.order.PaymentInstrument payment methods: gift certificate, and the others.
METHOD_GIFT_CERTIFICATE == "GIFT_CERTIFICATE"
OtherMethods == {"CREDIT_CARD", "DW_APPLE_PAY"}

VARIABLES
    \* ---- basket
    paymentInstruments,  \* currentBasket.getPaymentInstruments(), in insertion order
    totalGrossPrice,     \* currentBasket.totalGrossPrice (set by the pricing engine)
    balance,             \* giftCertificate.getBalance(), per gift certificate code
    lastOp,              \* the last basket operation, its argument and its result
                         \* (removed: the number of payment instruments it removed)
    repriced,            \* totalGrossPrice changed while the basket held a gift
                         \* certificate payment instrument
    settled,             \* a reconciliation has succeeded on the basket when it held one
                         \* other payment instrument and gift certificate amounts of at
                         \* most the total, and only applications, removals and
                         \* reconciliations followed
    \* ---- order finalization
    pc,                  \* position inside placeOrder
    orderStatus,         \* status of the order: "created", "placed", "failed"
    confirmationStatus,  \* order.confirmationStatus
    exportStatus,        \* order.exportStatus
    lineItems,           \* order.getGiftCertificateLineItems()
    fraudStatus,         \* fraudDetectionStatus.status
    giftCertificates,    \* gift certificates created by GiftCertificateMgr
    emails,              \* gift certificate e-mails handed to emailHelpers.sendEmail
    txDepth,             \* nesting depth of the dw.system.Transaction
    txCommitted,         \* the transaction begun by placeOrder has been committed
    visible,             \* the committed state of the order and of its gift certificates,
                         \* as a reader outside the transaction sees it
    failOrderCalls,      \* calls of OrderMgr.failOrder
    failOrderDepth,      \* txDepth at which OrderMgr.failOrder ran (0: not run)
    placeOrderStatus,    \* placeOrder's local placeOrderStatus ("none": not assigned)
    caught,              \* the call whose exception the catch block caught ("none")
    result,              \* placeOrder's result object: [error |-> ...]
    \* ---- cart
    giftCertificateLineItems,  \* currentBasket.getGiftCertificateLineItems()
    taxation,            \* the site's taxation policy: "net" or "gross"
    cartOp,              \* the last cart operation, its purchase form and its result
                         \* (the UUID of the line item returned, or Null)
    currentBasket,       \* BasketMgr.getCurrentBasket(): Null, or "basket"
    productQuantityTotal,  \* currentBasket.productQuantityTotal
    miniCart             \* the MiniCart request just handled, if any: whether the
                         \* handler raised, called res.setViewData and next(), and the
                         \* quantityTotal it has set

basketVars == <<paymentInstruments, totalGrossPrice, balance, lastOp, repriced, settled>>
orderVars == <<pc, orderStatus, confirmationStatus, exportStatus, lineItems, fraudStatus,
               giftCertificates, emails, txDepth, txCommitted, visible, failOrderCalls,
               failOrderDepth, placeOrderStatus, caught, result>>
cartVars == <<giftCertificateLineItems, taxation, cartOp, currentBasket,
              productQuantityTotal, miniCart>>
vars == <<basketVars, orderVars, cartVars>>

\* ---------------------------------------------------- payment instruments
GiftCertPI(code, amount) ==
    [paymentMethod |-> METHOD_GIFT_CERTIFICATE, giftCertificateCode |-> code, amount |-> amount]

OtherPI(method, amount) ==
    [paymentMethod |-> method, giftCertificateCode |-> "", amount |-> amount]

IsGiftCert(pi) == pi.paymentMethod = METHOD_GIFT_CERTIFICATE

\* currentBasket.getGiftCertificatePaymentInstruments()
GiftCertificatePaymentInstruments(pis) == SelectSeq(pis, IsGiftCert)

\* currentBasket.getGiftCertificatePaymentInstruments(giftCertificateID)
GiftCertificatePaymentInstrumentsFor(pis, code) ==
    SelectSeq(pis, LAMBDA pi : IsGiftCert(pi) /\ pi.giftCertificateCode = code)

RECURSIVE SumAmounts(_)
\* giftCertTotal = giftCertTotal.add(pi.getPaymentTransaction().getAmount()) over a list
SumAmounts(pis) ==
    IF pis = <<>> THEN 0 ELSE Head(pis).amount + SumAmounts(Tail(pis))

\* The loop "while (iter.hasNext()) currentBasket.removePaymentInstrument(iter.next())"
\* over getGiftCertificatePaymentInstruments(code).
RemoveAllFor(pis, code) ==
    SelectSeq(pis, LAMBDA pi : ~(IsGiftCert(pi) /\ pi.giftCertificateCode = code))

\* Faulty variant: the duplicates of the gift certificate are left on the basket.
RemoveNothing(pis, code) == pis

\* The removal loop at the head of createGiftCertificatePaymentInstrument.
RemoveDuplicates(pis, code) == RemoveAllFor(pis, code)

\* Faulty variant: the whole balance is redeemed, whatever is left open on the order.
AmountToRedeemBalanceOnly(bal, orderBalance) == bal

\* amountToRedeem = balance; if (orderBalance < amountToRedeem) amountToRedeem = orderBalance
AmountToRedeem(bal, orderBalance) ==
    IF orderBalance < bal THEN orderBalance ELSE bal

\* Faulty variant: the amounts the other gift certificates redeem are not subtracted.
OrderBalanceOfTotal(pis, orderTotal) == orderTotal

\* orderBalance = orderTotal.subtract(giftCertTotal), giftCertTotal summed over the
\* gift certificate payment instruments of the basket
OrderBalance(pis, orderTotal) ==
    orderTotal - SumAmounts(GiftCertificatePaymentInstruments(pis))

\* createGiftCertificatePaymentInstrument(currentBasket, giftCertificate): the payment
\* instruments of the basket after the call.
createGiftCertificatePaymentInstrument(pis, orderTotal, code, bal) ==
    LET kept == RemoveDuplicates(pis, code)
        amountToRedeem == AmountToRedeem(bal, OrderBalance(kept, orderTotal))
    IN  Append(kept, GiftCertPI(code, amountToRedeem))

RECURSIVE RemoveFirstFor(_, _)
\* Faulty variant: only the first payment instrument of the gift certificate is removed.
RemoveFirstFor(pis, code) ==
    IF pis = <<>> THEN <<>>
    ELSE IF IsGiftCert(Head(pis)) /\ Head(pis).giftCertificateCode = code THEN Tail(pis)
    ELSE <<Head(pis)>> \o RemoveFirstFor(Tail(pis), code)

\* removeGiftCertificatePaymentInstrument(currentBasket, giftCertificateID)
removeGiftCertificatePaymentInstrument(pis, code) == RemoveAllFor(pis, code)

\* Faulty variant: the loop lacks its break, runs over every payment instrument and
\* captures the last one that is not a gift certificate instrument.
ScanWithoutBreak(pis, i, giftCertTotal) ==
    LET others == {j \in i..Len(pis) : ~IsGiftCert(pis[j])}
    IN  [giftCertTotal |-> giftCertTotal + SumAmounts(GiftCertificatePaymentInstruments(pis)),
         nonGC |-> IF others = {} THEN 0
                   ELSE CHOOSE j \in others : \A k \in others : k <= j]

RECURSIVE Scan(_, _, _)
\* The loop of calculatePaymentTransaction over all payment instruments: sums the
\* gift certificate instruments met before the first other instrument, and captures
\* that instrument's position (0: none).
Scan(pis, i, giftCertTotal) ==
    IF i > Len(pis) THEN [giftCertTotal |-> giftCertTotal, nonGC |-> 0]
    ELSE IF IsGiftCert(pis[i]) THEN Scan(pis, i + 1, giftCertTotal + pis[i].amount)
    ELSE [giftCertTotal |-> giftCertTotal, nonGC |-> i]

\* Faulty variant: the open amount is computed from the gift certificates the scan has met.
ScannedOpenAmount(pis, orderTotal) == orderTotal - Scan(pis, 1, 0).giftCertTotal

\* getNonGiftCertificateAmount(currentBasket)
getNonGiftCertificateAmount(pis, orderTotal) ==
    orderTotal - SumAmounts(GiftCertificatePaymentInstruments(pis))

\* Faulty variant: a gift certificate total equal to the order total does not cover it.
StrictlyCovers(giftCertTotal, orderTotal) == giftCertTotal > orderTotal

\* giftCertTotal.value >= orderTotal.value
Covers(giftCertTotal, orderTotal) == giftCertTotal >= orderTotal

\* Faulty variant: the amount is written outside the transaction, so that a failure
\* after the write leaves it in place.
SetAmountUnwrapped(pis, i, amount, writeFails) ==
    [pis EXCEPT ![i].amount = IF amount <= 0 THEN 0 ELSE amount]

\* The callback of Transaction.wrap in calculatePaymentTransaction: sets the amount of
\* the instrument at position i to the open amount, or to zero when nothing is open; when
\* the write raises, the transaction is rolled back and the instruments stay as they were.
SetAmountWrapped(pis, i, amount, writeFails) ==
    IF writeFails THEN pis
    ELSE [pis EXCEPT ![i].amount = IF amount <= 0 THEN 0 ELSE amount]

\* calculatePaymentTransaction(currentBasket); writeFails: setAmount raises inside
\* Transaction.wrap. raised: the exception the catch block caught.
calculatePaymentTransaction(pis, orderTotal, writeFails) ==
    LET scan == Scan(pis, 1, 0)
        amount == getNonGiftCertificateAmount(pis, orderTotal)
    IN  IF scan.nonGC = 0
        THEN [error |-> ~Covers(scan.giftCertTotal, orderTotal), pis |-> pis,
              raised |-> "none"]
        ELSE [error |-> writeFails,
              pis |-> SetAmountWrapped(pis, scan.nonGC, amount, writeFails),
              raised |-> IF writeFails THEN "setAmount" ELSE "none"]

\* --------------------------------------------------------- basket actions
NoOp == [op |-> "none", code |-> "", again |-> FALSE, error |-> FALSE, raised |-> "none", removed |-> 0]

HasGiftCert(pis) == GiftCertificatePaymentInstruments(pis) # <<>>

\* A shopper redeems gift certificate `code`.
ApplyCredential(code) ==
    /\ paymentInstruments' =
           createGiftCertificatePaymentInstrument(paymentInstruments, totalGrossPrice,
                                                  code, balance[code])
    /\ lastOp' = [op |-> "apply", code |-> code,
                  again |-> (lastOp.op = "apply" /\ lastOp.code = code), error |-> FALSE,
                  raised |-> "none", removed |-> 0]
    /\ UNCHANGED <<totalGrossPrice, balance, repriced, settled>>
    /\ UNCHANGED <<orderVars, cartVars>>

\* giftCertificate.getGiftCertificateCode(), the first call of
\* createGiftCertificatePaymentInstrument: on null it raises a TypeError, which the
\* function does not catch.
GetGiftCertificateCode(giftCertificate) ==
    IF giftCertificate = Null
    THEN [raised |-> "TypeError", code |-> ""]
    ELSE [raised |-> "none", code |-> giftCertificate]

\* createGiftCertificatePaymentInstrument is called with no gift certificate (null).
ApplyNullCredential ==
    LET got == GetGiftCertificateCode(Null)
    IN  /\ paymentInstruments' =
               IF got.raised # "none" THEN paymentInstruments
               ELSE createGiftCertificatePaymentInstrument(paymentInstruments,
                                                           totalGrossPrice, got.code, 0)
        /\ lastOp' = [op |-> "applyNull", code |-> got.code, again |-> FALSE,
                      error |-> FALSE, raised |-> got.raised, removed |-> 0]
        /\ UNCHANGED <<totalGrossPrice, balance, repriced, settled>>
        /\ UNCHANGED <<orderVars, cartVars>>

\* A shopper removes gift certificate `code` from the basket.
RemoveCredential(code) ==
    /\ paymentInstruments' = removeGiftCertificatePaymentInstrument(paymentInstruments, code)
    /\ lastOp' = [op |-> "remove", code |-> code,
                  again |-> (lastOp.op = "remove" /\ lastOp.code = code), error |-> FALSE,
                  raised |-> "none",
                  removed |-> Len(paymentInstruments) - Len(paymentInstruments')]
    /\ UNCHANGED <<totalGrossPrice, balance, repriced, settled>>
    /\ UNCHANGED <<orderVars, cartVars>>

\* The billing step attaches a payment instrument of another method, for the basket
\* total; a method is attached once.
AddPaymentInstrument(method) ==
    /\ \A i \in 1..Len(paymentInstruments) : paymentInstruments[i].paymentMethod # method
    /\ paymentInstruments' = Append(paymentInstruments, OtherPI(method, totalGrossPrice))
    /\ lastOp' = [op |-> "add", code |-> "", again |-> FALSE, error |-> FALSE,
                  raised |-> "none", removed |-> 0]
    /\ settled' = FALSE
    /\ UNCHANGED <<totalGrossPrice, balance, repriced>>
    /\ UNCHANGED <<orderVars, cartVars>>

\* Another gift certificate payment instrument is attached for a code the basket holds
\* already, through currentBasket.createGiftCertificatePaymentInstrument and past the
\* removal loop, for the amount of the one it holds: the duplicate the removal loops
\* are written for.
AttachDuplicate(code) ==
    /\ Len(GiftCertificatePaymentInstrumentsFor(paymentInstruments, code)) \in 1..(MaxDup - 1)
    /\ paymentInstruments' =
           Append(paymentInstruments,
                  Head(GiftCertificatePaymentInstrumentsFor(paymentInstruments, code)))
    /\ lastOp' = [op |-> "duplicate", code |-> code, again |-> FALSE, error |-> FALSE,
                  raised |-> "none", removed |-> 0]
    /\ UNCHANGED <<totalGrossPrice, balance, repriced, settled>>
    /\ UNCHANGED <<orderVars, cartVars>>

\* The pricing engine recomputes the basket total.
SetTotalGrossPrice(t) ==
    /\ t # totalGrossPrice
    /\ totalGrossPrice' = t
    /\ repriced' = (repriced \/ HasGiftCert(paymentInstruments))
    /\ settled' = FALSE
    /\ lastOp' = [op |-> "total", code |-> "", again |-> FALSE, error |-> FALSE,
                  raised |-> "none", removed |-> 0]
    /\ UNCHANGED <<paymentInstruments, balance>>
    /\ UNCHANGED <<orderVars, cartVars>>

\* The basket holds exactly one payment instrument that is not a gift certificate one,
\* and its gift certificate payment instruments sum to at most the total.
Reconcilable(pis, orderTotal) ==
    /\ Len(pis) - Len(GiftCertificatePaymentInstruments(pis)) = 1
    /\ SumAmounts(GiftCertificatePaymentInstruments(pis)) <= orderTotal

\* Checkout reconciles the payment transaction amounts.
Reconcile(writeFails) ==
    LET r == calculatePaymentTransaction(paymentInstruments, totalGrossPrice, writeFails)
    IN  /\ paymentInstruments' = r.pis
        /\ lastOp' = [op |-> "reconcile", code |-> "", again |-> FALSE, error |-> r.error,
                      raised |-> r.raised, removed |-> 0]
        /\ settled' = (settled \/ (~r.error /\ Reconcilable(paymentInstruments, totalGrossPrice)))
        /\ UNCHANGED <<totalGrossPrice, balance, repriced>>
        /\ UNCHANGED <<orderVars, cartVars>>

InitBasket ==
    /\ paymentInstruments = <<>>
    /\ totalGrossPrice \in 0..MaxTotal
    /\ balance \in [Codes -> 0..MaxBalance]
    /\ lastOp = NoOp
    /\ repriced = FALSE
    /\ settled = FALSE

Next ==
    \/ \E code \in Codes : ApplyCredential(code)
    \/ ApplyNullCredential
    \/ \E code \in Codes : RemoveCredential(code)
    \/ \E method \in OtherMethods : AddPaymentInstrument(method)
    \/ \E t \in 0..MaxTotal : SetTotalGrossPrice(t)
    \/ \E writeFails \in BOOLEAN : Reconcile(writeFails)


\* ------------------------------------------------------- order: placeOrder
Emails == {"ann@example.com", "bob@example.com"}

\* A gift certificate line item of the order.
LineItems ==
    [netPrice : 1..MaxPrice, tax : 0..1, recipientEmail : Emails]

GrossPrice(lineItem) == lineItem.netPrice + lineItem.tax

\* Faulty variant: the gift certificate is issued for the gross price of the line item.
createGiftCertificateFromGrossPrice(lineItem, i, orderNo) ==
    [balance |-> GrossPrice(lineItem), recipientEmail |-> lineItem.recipientEmail,
     lineItem |-> i, orderNo |-> orderNo]

\* createGiftCertificateFromLineItem(giftCertificateLineItem, orderNo), for the i-th line
\* item: GiftCertificateMgr.createGiftCertificate(netPrice.value) and the setters.
createGiftCertificateFromLineItem(lineItem, i, orderNo) ==
    [balance |-> lineItem.netPrice, recipientEmail |-> lineItem.recipientEmail,
     lineItem |-> i, orderNo |-> orderNo]

\* sendGiftCertificateEmail(GiftCertificate): the e-mail handed to emailHelpers.sendEmail
GiftCertificateEmail(giftCertificate) ==
    [to |-> giftCertificate.recipientEmail, giftCertificate |-> giftCertificate.lineItem]

\* Faulty variant: an error status of the placement is ignored.
PlacementNeverFails(status) == FALSE

\* placeOrderStatus === Status.ERROR
PlacementFailed(status) == status = "ERROR"

OrderNo == "00000001"

\* Faulty variant: the transaction is committed as soon as the statuses are set, the
\* gift certificates left for later.
AfterMapCommitFirst(created, sent) == "commit"

\* Where placeOrder continues once the order's statuses are set, or a step of the map
\* or of the forEach is done.
AfterMap(created, sent) ==
    IF created < Len(lineItems) THEN "map"
    ELSE IF sent < Len(lineItems) THEN "forEach"
    ELSE "commit"

\* Faulty variant: the order is confirmed whatever the fraud detection says.
AlwaysConfirmed(status) == "CONFIRMED"

\* order.setConfirmationStatus: not confirmed when fraudDetectionStatus.status is 'flag'
ConfirmationStatusFor(status) ==
    IF status = "flag" THEN "NOTCONFIRMED" ELSE "CONFIRMED"

\* Faulty variant: the catch block leaves result.error as it was.
CaughtResultUnset(res) == res

\* result.error = true, in the catch block
CaughtResult(res) == [res EXCEPT !.error = TRUE]

\* The order and its gift certificates as the running transaction has them.
Working(status, certificates) ==
    [orderStatus |-> status, giftCertificates |-> certificates]

\* What a reader outside the transaction sees after a commit that leaves the nesting
\* depth at `depth`: the working state once the outermost level is committed, and what
\* it saw before while a level stays open.
Committed(depth, working, seen) == IF depth = 0 THEN working ELSE seen

\* Transaction.begin()
TransactionBegin ==
    /\ pc = "idle"
    /\ txDepth' = txDepth + 1
    /\ pc' = "placeOrder"
    /\ UNCHANGED <<orderStatus, confirmationStatus, exportStatus, lineItems, fraudStatus,
                   giftCertificates, emails, txCommitted, visible, failOrderCalls,
                   failOrderDepth, placeOrderStatus, caught, result>>
    /\ UNCHANGED <<basketVars, cartVars>>

\* var placeOrderStatus = OrderMgr.placeOrder(order); if it is Status.ERROR, throw.
\* outcome: the status returned, or "throw" when the call raises.
OrderMgrPlaceOrder(outcome) ==
    /\ pc = "placeOrder"
    /\ IF outcome = "throw"
       THEN /\ caught' = "placeOrder"
            /\ pc' = "catch"
            /\ UNCHANGED <<orderStatus, placeOrderStatus>>
       ELSE /\ placeOrderStatus' = outcome
            /\ orderStatus' = IF outcome = "OK" THEN "placed" ELSE orderStatus
            /\ IF PlacementFailed(outcome)
               THEN caught' = "Error" /\ pc' = "catch"
               ELSE caught' = caught /\ pc' = "setStatus"
    /\ UNCHANGED <<confirmationStatus, exportStatus, lineItems, fraudStatus,
                   giftCertificates, emails, txDepth, txCommitted, visible,
                   failOrderCalls, failOrderDepth, result>>
    /\ UNCHANGED <<basketVars, cartVars>>

\* order.setConfirmationStatus(...); order.setExportStatus(Order.EXPORT_STATUS_READY)
SetStatus ==
    /\ pc = "setStatus"
    /\ confirmationStatus' = ConfirmationStatusFor(fraudStatus)
    /\ exportStatus' = "READY"
    /\ pc' = AfterMap(0, 0)
    /\ UNCHANGED <<orderStatus, lineItems, fraudStatus, giftCertificates, emails, txDepth,
                   txCommitted, visible, failOrderCalls, failOrderDepth, placeOrderStatus,
                   caught, result>>
    /\ UNCHANGED <<basketVars, cartVars>>

\* One step of the map: createGiftCertificateFromLineItem for the next line item.
CreateGiftCertificate(raises) ==
    /\ pc = "map"
    /\ LET i == Len(giftCertificates) + 1
       IN  IF raises
           THEN /\ caught' = "createGiftCertificate"
                /\ pc' = "catch"
                /\ UNCHANGED giftCertificates
           ELSE /\ giftCertificates' =
                       Append(giftCertificates,
                              createGiftCertificateFromLineItem(lineItems[i], i, OrderNo))
                /\ pc' = AfterMap(i, 0)
                /\ UNCHANGED caught
    /\ UNCHANGED <<orderStatus, confirmationStatus, exportStatus, lineItems, fraudStatus,
                   emails, txDepth, txCommitted, visible, failOrderCalls, failOrderDepth,
                   placeOrderStatus, result>>
    /\ UNCHANGED <<basketVars, cartVars>>

\* One step of the forEach: sendGiftCertificateEmail for the next gift certificate.
SendGiftCertificateEmail(raises) ==
    /\ pc = "forEach"
    /\ LET i == Len(emails) + 1
       IN  IF raises
           THEN /\ caught' = "sendEmail"
                /\ pc' = "catch"
                /\ UNCHANGED emails
           ELSE /\ emails' = Append(emails, GiftCertificateEmail(giftCertificates[i]))
                /\ pc' = AfterMap(Len(giftCertificates), i)
                /\ UNCHANGED caught
    /\ UNCHANGED <<orderStatus, confirmationStatus, exportStatus, lineItems, fraudStatus,
                   giftCertificates, txDepth, txCommitted, visible, failOrderCalls,
                   failOrderDepth, placeOrderStatus, result>>
    /\ UNCHANGED <<basketVars, cartVars>>

\* Transaction.commit(); return result
TransactionCommit ==
    /\ pc = "commit"
    /\ txDepth' = txDepth - 1
    /\ txCommitted' = (txDepth - 1 = 0)
    /\ visible' = Committed(txDepth - 1, Working(orderStatus, giftCertificates), visible)
    /\ pc' = "done"
    /\ UNCHANGED <<orderStatus, confirmationStatus, exportStatus, lineItems, fraudStatus,
                   giftCertificates, emails, failOrderCalls, failOrderDepth,
                   placeOrderStatus, caught, result>>
    /\ UNCHANGED <<basketVars, cartVars>>

\* catch (e) { Transaction.wrap(function () { OrderMgr.failOrder(order); });
\*             result.error = true; }  return result
\* Transaction.wrap begins (one level deeper when a transaction is open), runs the
\* callback and commits that level.
CatchFailOrder ==
    /\ pc = "catch"
    /\ failOrderDepth' = txDepth + 1
    /\ failOrderCalls' = failOrderCalls + 1
    /\ orderStatus' = "failed"
    /\ txDepth' = (txDepth + 1) - 1
    /\ visible' = Committed((txDepth + 1) - 1, Working("failed", giftCertificates), visible)
    /\ result' = CaughtResult(result)
    /\ pc' = "done"
    /\ UNCHANGED <<confirmationStatus, exportStatus, lineItems, fraudStatus,
                   giftCertificates, emails, txCommitted, placeOrderStatus, caught>>
    /\ UNCHANGED <<basketVars, cartVars>>

\* ------------------------------------------- cart: gift certificate line items
UUIDs == {"u1", "u2"}

CurrencyCode == "USD"

\* new Money(value, currencyCode)
Money(value, currencyCode) == [value |-> value, currencyCode |-> currencyCode]

\* What a customer enters into the purchase form, the amount aside.
Entries ==
    {[from |-> "Ann", recipient |-> "Bob", recipientEmail |-> "bob@example.com",
      message |-> "Happy birthday"],
     [from |-> "Bob", recipient |-> "Ann", recipientEmail |-> "ann@example.com",
      message |-> ""]}

\* session.forms.giftcert.purchase, with the values of `lineItemId` among `ids`
PurchaseForms(ids) ==
    {[lineItemId |-> id, from |-> e.from, recipient |-> e.recipient,
      recipientEmail |-> e.recipientEmail, message |-> e.message, amount |-> amount] :
        id \in ids, e \in Entries, amount \in 1..MaxPrice}

\* empty(obj) of the script API, on a string
empty(obj) == obj \in {Null, ""}

\* Faulty variant: the first line item of the cart is taken, whatever its UUID.
FirstLineItem(items, uuid) == IF Len(items) > 0 THEN 1 ELSE 0

RECURSIVE LineItemFrom(_, _, _)
\* The iterator of getGiftCertificateLineItemByUUID, from the i-th line item on.
LineItemFrom(items, uuid, i) ==
    IF i > Len(items) THEN 0
    ELSE IF items[i].UUID = uuid THEN i
    ELSE LineItemFrom(items, uuid, i + 1)

\* getGiftCertificateLineItemByUUID(lineItems, uuid): the position of the line item found,
\* 0 for null.
getGiftCertificateLineItemByUUID(items, uuid) == LineItemFrom(items, uuid, 1)

\* giftCertificateLineItem.price: the net price under net taxation, else the gross price
Price(giftCertificateLineItem) ==
    IF taxation = "net" THEN giftCertificateLineItem.netPrice
    ELSE giftCertificateLineItem.grossPrice

\* getGiftLineItemObj(giftCertificateLineItem)
getGiftLineItemObj(giftCertificateLineItem) ==
    [from |-> giftCertificateLineItem.senderName,
     lineItemId |-> giftCertificateLineItem.UUID,
     recipient |-> giftCertificateLineItem.recipientName,
     recipientEmail |-> giftCertificateLineItem.recipientEmail,
     confirmRecipientEmail |-> giftCertificateLineItem.recipientEmail,
     message |-> giftCertificateLineItem.message,
     amount |-> Price(giftCertificateLineItem).value]

\* createGiftCert(currentBasket): currentBasket.createGiftCertificateLineItem(amount,
\* recipientEmail), which gives the line item the UUID `uuid`, and the three setters.
createGiftCert(items, purchaseForm, uuid) ==
    Append(items,
           [UUID |-> uuid,
            senderName |-> purchaseForm.from,
            recipientName |-> purchaseForm.recipient,
            recipientEmail |-> purchaseForm.recipientEmail,
            message |-> purchaseForm.message,
            basePrice |-> Money(purchaseForm.amount, CurrencyCode),
            grossPrice |-> Money(purchaseForm.amount, CurrencyCode),
            netPrice |-> Money(purchaseForm.amount, CurrencyCode)])

\* The line item found by updateGiftCert (0 for null).
LineItemToUpdate(items, purchaseForm) ==
    IF Len(items) > 0 /\ ~empty(purchaseForm.lineItemId)
    THEN getGiftCertificateLineItemByUUID(items, purchaseForm.lineItemId)
    ELSE 0

\* Faulty variant: only the base price of the line item takes the new amount.
updateGiftCertBasePriceOnly(items, purchaseForm) ==
    LET found == LineItemToUpdate(items, purchaseForm)
    IN  IF found = 0 THEN [result |-> Null, items |-> items]
        ELSE [result |-> items[found].UUID,
              items |-> [items EXCEPT ![found] =
                  [@ EXCEPT !.senderName = purchaseForm.from,
                            !.recipientName = purchaseForm.recipient,
                            !.recipientEmail = purchaseForm.recipientEmail,
                            !.message = purchaseForm.message,
                            !.basePrice = Money(purchaseForm.amount, @.currencyCode)]]]

\* updateGiftCert(currentBasket): the line item returned (its UUID, or Null) and the
\* line items of the basket afterwards.
updateGiftCert(items, purchaseForm) ==
    LET found == LineItemToUpdate(items, purchaseForm)
    IN  IF found = 0 THEN [result |-> Null, items |-> items]
        ELSE [result |-> items[found].UUID,
              items |-> [items EXCEPT ![found] =
                  [@ EXCEPT !.senderName = purchaseForm.from,
                            !.recipientName = purchaseForm.recipient,
                            !.recipientEmail = purchaseForm.recipientEmail,
                            !.message = purchaseForm.message,
                            !.basePrice = Money(purchaseForm.amount, @.currencyCode),
                            !.grossPrice = Money(purchaseForm.amount, @.currencyCode),
                            !.netPrice = Money(purchaseForm.amount, @.currencyCode)]]]

NoCartOp ==
    [op |-> "none", result |-> Null, changed |-> FALSE,
     form |-> [lineItemId |-> "", from |-> "", recipient |-> "", recipientEmail |-> "",
               message |-> "", amount |-> 0]]

\* No MiniCart request has been handled since the cart changed.
NoMiniCart ==
    [op |-> "none", raised |-> "none", viewData |-> FALSE, next |-> FALSE,
     quantityTotal |-> 0]

\* The handler appended to MiniCart, for the basket BasketMgr.getCurrentBasket() returns
\* (Null: none), its productQuantityTotal and its gift certificate line items. With no
\* basket, currentBasket.giftCertificateLineItems raises a TypeError, before
\* res.setViewData and next().
MiniCart(basket, quantity, items) ==
    LET quantityTotal == IF basket # Null THEN quantity ELSE 0
    IN  IF basket = Null
        THEN [op |-> "MiniCart", raised |-> "TypeError", viewData |-> FALSE,
              next |-> FALSE, quantityTotal |-> quantityTotal]
        ELSE [op |-> "MiniCart", raised |-> "none", viewData |-> TRUE, next |-> TRUE,
              quantityTotal |-> IF Len(items) > 0 THEN quantityTotal + Len(items)
                                ELSE quantityTotal]

\* The storefront requests Cart-MiniCart.
MiniCartRequest ==
    /\ miniCart' = MiniCart(currentBasket, productQuantityTotal, giftCertificateLineItems)
    /\ UNCHANGED <<giftCertificateLineItems, taxation, cartOp, currentBasket,
                   productQuantityTotal>>
    /\ UNCHANGED <<basketVars, orderVars>>

\* The first addition to the cart creates the basket of the session.
GetCurrentOrNewBasket ==
    /\ currentBasket = Null
    /\ currentBasket' = "basket"
    /\ miniCart' = NoMiniCart
    /\ UNCHANGED <<giftCertificateLineItems, taxation, cartOp, productQuantityTotal>>
    /\ UNCHANGED <<basketVars, orderVars>>

\* The customer adds one unit of a product to the basket.
AddProduct ==
    /\ currentBasket # Null
    /\ productQuantityTotal < MaxQuantity
    /\ productQuantityTotal' = productQuantityTotal + 1
    /\ miniCart' = NoMiniCart
    /\ UNCHANGED <<giftCertificateLineItems, taxation, cartOp, currentBasket>>
    /\ UNCHANGED <<basketVars, orderVars>>

\* The customer submits the purchase form for a new gift certificate.
CreateGiftCert(purchaseForm) ==
    /\ currentBasket # Null
    /\ \E u \in UUIDs :
           \A i \in 1..Len(giftCertificateLineItems) : giftCertificateLineItems[i].UUID # u
    /\ LET uuid == CHOOSE u \in UUIDs :
                       \A i \in 1..Len(giftCertificateLineItems) :
                           giftCertificateLineItems[i].UUID # u
       IN  /\ giftCertificateLineItems' =
                  createGiftCert(giftCertificateLineItems, purchaseForm, uuid)
           /\ cartOp' = [op |-> "create", form |-> purchaseForm, result |-> uuid,
                         changed |-> TRUE]
    /\ miniCart' = NoMiniCart
    /\ UNCHANGED <<taxation, currentBasket, productQuantityTotal>>
    /\ UNCHANGED <<basketVars, orderVars>>

\* The customer submits the purchase form to edit a gift certificate of the cart.
UpdateGiftCert(purchaseForm) ==
    LET r == updateGiftCert(giftCertificateLineItems, purchaseForm)
    IN  /\ giftCertificateLineItems' = r.items
        /\ cartOp' = [op |-> "update", form |-> purchaseForm, result |-> r.result,
                      changed |-> (r.items # giftCertificateLineItems)]
        /\ miniCart' = NoMiniCart
        /\ UNCHANGED <<taxation, currentBasket, productQuantityTotal>>
        /\ UNCHANGED <<basketVars, orderVars>>

\* No gift certificate is being purchased.
CartIdle ==
    /\ giftCertificateLineItems = <<>>
    /\ taxation = "net"
    /\ cartOp = NoCartOp
    /\ currentBasket = "basket"
    /\ productQuantityTotal = 0
    /\ miniCart = NoMiniCart

\* ------------------------------------------------------------ order: idle
OrderIdle ==
    /\ pc = "idle"
    /\ orderStatus = "created"
    /\ confirmationStatus = "none"
    /\ exportStatus = "none"
    /\ lineItems = <<>>
    /\ fraudStatus = "ok"
    /\ giftCertificates = <<>>
    /\ emails = <<>>
    /\ txDepth = 0
    /\ txCommitted = FALSE
    /\ visible = [orderStatus |-> "created", giftCertificates |-> <<>>]
    /\ failOrderCalls = 0
    /\ failOrderDepth = 0
    /\ placeOrderStatus = "none"
    /\ caught = "none"
    /\ result = [error |-> FALSE]

\* The basket under its operations, no order being placed.
Init == InitBasket /\ OrderIdle /\ CartIdle
Spec == Init /\ [][Next]_vars

\* The gift certificate instruments of a basket of fixed total, duplicates included.
NextLedger ==
    \/ \E code \in Codes : ApplyCredential(code)
    \/ \E code \in Codes : RemoveCredential(code)
    \/ \E method \in OtherMethods : AddPaymentInstrument(method)
    \/ \E code \in Codes : AttachDuplicate(code)

SpecLedger == Init /\ [][NextLedger]_vars

\* ------------------------------- the two copies of the payment instrument helpers
\* The basket is persistent: a write to it outside a transaction raises, and changes
\* nothing.
TransactionRequired(depth) == depth = 0

\* removeGiftCertificatePaymentInstrument of the checkout helpers, called at transaction
\* depth `depth`: the removal loop runs inside Transaction.wrap.
checkoutHelpers_removeGiftCertificatePaymentInstrument(pis, code, depth) ==
    [pis |-> RemoveAllFor(pis, code), raised |-> "none"]

\* removeGiftCertificatePaymentInstrument of giftCertHelpers, called at transaction depth
\* `depth`: the removal loop runs in the transaction of the caller, if there is one.
giftCertHelpers_removeGiftCertificatePaymentInstrument(pis, code, depth) ==
    IF GiftCertificatePaymentInstrumentsFor(pis, code) # <<>> /\ TransactionRequired(depth)
    THEN [pis |-> pis, raised |-> "removePaymentInstrument"]
    ELSE [pis |-> RemoveAllFor(pis, code), raised |-> "none"]

\* createGiftCertificatePaymentInstrument of the checkout helpers, called at transaction
\* depth `depth`: it opens no transaction, and writes to the basket on every call.
checkoutHelpers_createGiftCertificatePaymentInstrument(pis, orderTotal, code, bal, depth) ==
    IF TransactionRequired(depth)
    THEN [pis |-> pis,
          raised |-> IF GiftCertificatePaymentInstrumentsFor(pis, code) # <<>>
                     THEN "removePaymentInstrument"
                     ELSE "createGiftCertificatePaymentInstrument"]
    ELSE [pis |-> createGiftCertificatePaymentInstrument(pis, orderTotal, code, bal),
          raised |-> "none"]

\* createGiftCertificatePaymentInstrument of giftCertHelpers, called at transaction depth
\* `depth`.
giftCertHelpers_createGiftCertificatePaymentInstrument(pis, orderTotal, code, bal, depth) ==
    IF TransactionRequired(depth)
    THEN [pis |-> pis,
          raised |-> IF GiftCertificatePaymentInstrumentsFor(pis, code) # <<>>
                     THEN "removePaymentInstrument"
                     ELSE "createGiftCertificatePaymentInstrument"]
    ELSE LET kept == RemoveAllFor(pis, code)
             balance_ == bal
             giftCertTotal == SumAmounts(GiftCertificatePaymentInstruments(kept))
             orderBalance == orderTotal - giftCertTotal
             amountToRedeem == IF orderBalance < balance_ THEN orderBalance ELSE balance_
         IN  [pis |-> Append(kept, GiftCertPI(code, amountToRedeem)), raised |-> "none"]

\* The outcome of a helper call as the basket and lastOp take it.
HelperCalled(op, code, r) ==
    /\ paymentInstruments' = r.pis
    /\ lastOp' = [op |-> op, code |-> code, again |-> FALSE, error |-> (r.raised # "none"),
                  raised |-> r.raised,
                  removed |-> IF Len(r.pis) < Len(paymentInstruments)
                              THEN Len(paymentInstruments) - Len(r.pis) ELSE 0]
    /\ UNCHANGED <<totalGrossPrice, balance, repriced, settled>>
    /\ UNCHANGED <<orderVars, cartVars>>

\* A controller calls the checkout helpers' copy, in a transaction of its own or in none.
CheckoutCreate(code) ==
    /\ pc = "idle"
    /\ HelperCalled("checkoutHelpers.create", code,
                    checkoutHelpers_createGiftCertificatePaymentInstrument(
                        paymentInstruments, totalGrossPrice, code, balance[code], txDepth))

CheckoutRemove(code) ==
    /\ pc = "idle"
    /\ HelperCalled("checkoutHelpers.remove", code,
                    checkoutHelpers_removeGiftCertificatePaymentInstrument(
                        paymentInstruments, code, txDepth))

\* A controller calls the copy of giftCertHelpers, in a transaction of its own or in none.
GiftCertCreate(code) ==
    /\ pc = "idle"
    /\ HelperCalled("giftCertHelpers.create", code,
                    giftCertHelpers_createGiftCertificatePaymentInstrument(
                        paymentInstruments, totalGrossPrice, code, balance[code], txDepth))

GiftCertRemove(code) ==
    /\ pc = "idle"
    /\ HelperCalled("giftCertHelpers.remove", code,
                    giftCertHelpers_removeGiftCertificatePaymentInstrument(
                        paymentInstruments, code, txDepth))

\* The controller opens a transaction around its helper calls.
ControllerBegin ==
    /\ pc = "idle"
    /\ txDepth = 0
    /\ txDepth' = txDepth + 1
    /\ UNCHANGED <<pc, orderStatus, confirmationStatus, exportStatus, lineItems,
                   fraudStatus, giftCertificates, emails, txCommitted, visible,
                   failOrderCalls, failOrderDepth, placeOrderStatus, caught, result>>
    /\ UNCHANGED <<basketVars, cartVars>>

\* The controller commits its transaction.
ControllerCommit ==
    /\ pc = "idle"
    /\ txDepth > 0
    /\ txDepth' = txDepth - 1
    /\ UNCHANGED <<pc, orderStatus, confirmationStatus, exportStatus, lineItems,
                   fraudStatus, giftCertificates, emails, txCommitted, visible,
                   failOrderCalls, failOrderDepth, placeOrderStatus, caught, result>>
    /\ UNCHANGED <<basketVars, cartVars>>

NextHelpers ==
    \/ \E code \in Codes : CheckoutCreate(code)
    \/ \E code \in Codes : CheckoutRemove(code)
    \/ \E code \in Codes : GiftCertCreate(code)
    \/ \E code \in Codes : GiftCertRemove(code)
    \/ \E method \in OtherMethods : AddPaymentInstrument(method)
    \/ ControllerBegin
    \/ ControllerCommit

SpecHelpers == Init /\ [][NextHelpers]_vars


\* An order about to be placed, its basket left alone.
InitOrder ==
    /\ paymentInstruments = <<>>
    /\ totalGrossPrice = 0
    /\ balance = [code \in Codes |-> 0]
    /\ lastOp = NoOp
    /\ repriced = FALSE
    /\ settled = FALSE
    /\ pc = "idle"
    /\ orderStatus = "created"
    /\ confirmationStatus = "none"
    /\ exportStatus = "none"
    /\ \E n \in 0..MaxItems : lineItems \in [1..n -> LineItems]
    /\ fraudStatus \in {"flag", "ok"}
    /\ giftCertificates = <<>>
    /\ emails = <<>>
    /\ txDepth = 0
    /\ txCommitted = FALSE
    /\ visible = [orderStatus |-> "created", giftCertificates |-> <<>>]
    /\ failOrderCalls = 0
    /\ failOrderDepth = 0
    /\ placeOrderStatus = "none"
    /\ caught = "none"
    /\ result = [error |-> FALSE]
    /\ CartIdle

NextOrder ==
    \/ TransactionBegin
    \/ \E outcome \in {"OK", "ERROR", "throw"} : OrderMgrPlaceOrder(outcome)
    \/ SetStatus
    \/ \E raises \in BOOLEAN : CreateGiftCertificate(raises)
    \/ \E raises \in BOOLEAN : SendGiftCertificateEmail(raises)
    \/ TransactionCommit
    \/ CatchFailOrder

SpecOrder == InitOrder /\ [][NextOrder]_vars

\* placeOrder runs to its return: the request thread is never suspended for good.
SpecOrderFair == SpecOrder /\ WF_vars(NextOrder)

\* A cart of gift certificates under purchase and edit, no payment and no order yet.
InitCart ==
    /\ paymentInstruments = <<>>
    /\ totalGrossPrice = 0
    /\ balance = [code \in Codes |-> 0]
    /\ lastOp = NoOp
    /\ repriced = FALSE
    /\ settled = FALSE
    /\ OrderIdle
    /\ giftCertificateLineItems = <<>>
    /\ taxation \in {"net", "gross"}
    /\ cartOp = NoCartOp
    /\ currentBasket = "basket"
    /\ productQuantityTotal = 0
    /\ miniCart = NoMiniCart

NextCart ==
    \/ \E purchaseForm \in PurchaseForms({""}) : CreateGiftCert(purchaseForm)
    \/ \E purchaseForm \in PurchaseForms(UUIDs \cup {"", Null, "u0"}) :
           UpdateGiftCert(purchaseForm)

SpecCart == InitCart /\ [][NextCart]_vars

\* A session from its start, with no basket yet, and its MiniCart requests.
InitMiniCart ==
    /\ paymentInstruments = <<>>
    /\ totalGrossPrice = 0
    /\ balance = [code \in Codes |-> 0]
    /\ lastOp = NoOp
    /\ repriced = FALSE
    /\ settled = FALSE
    /\ OrderIdle
    /\ giftCertificateLineItems = <<>>
    /\ taxation = "net"
    /\ cartOp = NoCartOp
    /\ currentBasket = Null
    /\ productQuantityTotal = 0
    /\ miniCart = NoMiniCart

NextMiniCart ==
    \/ GetCurrentOrNewBasket
    \/ AddProduct
    \/ \E purchaseForm \in PurchaseForms({""}) : CreateGiftCert(purchaseForm)
    \/ MiniCartRequest

SpecMiniCart == InitMiniCart /\ [][NextMiniCart]_vars

\* ================================================================= properties
\* Helpers of the properties below.
Min(a, b) == IF a < b THEN a ELSE b
Max(a, b) == IF a > b THEN a ELSE b

\* Sum of the amounts of the gift certificate payment instruments of the basket.
SumRedeemed(pis) == SumAmounts(GiftCertificatePaymentInstruments(pis))

\* Position of the first payment instrument that is not a gift certificate one (0: none).
FirstOther(pis) ==
    IF \E i \in 1..Len(pis) : ~IsGiftCert(pis[i])
    THEN CHOOSE i \in 1..Len(pis) :
             /\ ~IsGiftCert(pis[i])
             /\ \A j \in 1..(i - 1) : IsGiftCert(pis[j])
    ELSE 0

\* ------------------------------------------------------------------------ C1
\* C1: applying the same gift certificate twice in a row leaves exactly one payment
\* instrument bound to its code, with the amount the first application gave it.
C1_ApplyIdempotent ==
    [][(lastOp.op = "apply" /\ lastOp'.op = "apply" /\ lastOp'.code = lastOp.code) =>
          LET mine == GiftCertificatePaymentInstrumentsFor(paymentInstruments', lastOp'.code)
          IN  /\ Len(mine) = 1
              /\ mine = GiftCertificatePaymentInstrumentsFor(paymentInstruments, lastOp.code)
      ]_vars

\* A gift certificate applied twice in a row on a basket that holds another gift
\* certificate, redeeming a positive amount.
C1_Witness ==
    /\ lastOp.op = "apply"
    /\ lastOp.again
    /\ Len(GiftCertificatePaymentInstruments(paymentInstruments)) = 2
    /\ GiftCertificatePaymentInstrumentsFor(paymentInstruments, lastOp.code)[1].amount > 0

\* ------------------------------------------------------------------------ C2
\* C2: the payment instrument attached by an application carries
\* min(balance, orderBalance), orderBalance being the basket total minus the other gift
\* certificate amounts, and exactly zero when orderBalance is zero or negative.
C2_AmountClampedAtZero ==
    lastOp.op = "apply" =>
        LET mine == GiftCertificatePaymentInstrumentsFor(paymentInstruments, lastOp.code)
            others == RemoveAllFor(paymentInstruments, lastOp.code)
            orderBalance == totalGrossPrice - SumRedeemed(others)
        IN  /\ Len(mine) = 1
            /\ mine[1].amount =
                   IF orderBalance <= 0 THEN 0 ELSE Min(balance[lastOp.code], orderBalance)

\* ------------------------------------------------------------------------ C3
\* C3 as stated: after a reconcile that reports success the gift certificate amounts sum
\* to at most the basket total, whatever applications and total changes came before.
C3_NoOverRedemption ==
    (lastOp.op = "reconcile" /\ ~lastOp.error) =>
        SumRedeemed(paymentInstruments) <= totalGrossPrice

\* C3 amended: after a reconcile that reports success the gift certificate amounts sum
\* to at most the basket total, provided the total has not changed since the basket
\* held a gift certificate payment instrument.
C3_NoOverRedemptionUnlessRepriced ==
    (lastOp.op = "reconcile" /\ ~lastOp.error /\ ~repriced) =>
        SumRedeemed(paymentInstruments) <= totalGrossPrice

\* A successful reconcile of a basket whose two gift certificates cover the total, which
\* has not changed since they were applied.
C3_Witness ==
    /\ lastOp.op = "reconcile"
    /\ ~lastOp.error
    /\ ~repriced
    /\ Len(GiftCertificatePaymentInstruments(paymentInstruments)) = 2
    /\ totalGrossPrice > 0
    /\ SumRedeemed(paymentInstruments) = totalGrossPrice

\* ------------------------------------------------------------------------ C4
\* C4: a reconcile that writes the amount sets the first non-gift-certificate payment
\* instrument to max(0, total - sum of all gift certificate amounts), wherever the gift
\* certificate instruments stand; the instrument stays on the basket.
C4_OpenAmountOnFirstOther ==
    (lastOp.op = "reconcile" /\ ~lastOp.error /\ FirstOther(paymentInstruments) # 0) =>
        paymentInstruments[FirstOther(paymentInstruments)].amount =
            Max(0, totalGrossPrice - SumRedeemed(paymentInstruments))

\* A reconcile of a basket whose first instrument is a conventional one, followed by gift
\* certificate instruments that cover the whole total: the amount is zero.
C4_Witness ==
    /\ lastOp.op = "reconcile"
    /\ ~lastOp.error
    /\ FirstOther(paymentInstruments) = 1
    /\ totalGrossPrice > 0
    /\ SumRedeemed(paymentInstruments) = totalGrossPrice
    /\ paymentInstruments[1].amount = 0

\* ------------------------------------------------------------------------ C5
\* C5: without a non-gift-certificate payment instrument, reconcile reports success
\* exactly when the gift certificate amounts sum to at least the basket total.
C5_NoOtherInstrument ==
    (lastOp.op = "reconcile" /\ FirstOther(paymentInstruments) = 0) =>
        (~lastOp.error <=> SumRedeemed(paymentInstruments) >= totalGrossPrice)

\* A reconcile that fails: gift certificates only, redeeming less than the total.
C5_Witness ==
    /\ lastOp.op = "reconcile"
    /\ lastOp.error
    /\ FirstOther(paymentInstruments) = 0
    /\ HasGiftCert(paymentInstruments)
    /\ SumRedeemed(paymentInstruments) > 0
    /\ SumRedeemed(paymentInstruments) < totalGrossPrice

\* ------------------------------------------------------------------------ C6
\* C6: when OrderMgr.placeOrder returns the error status, no gift certificate is created
\* and no e-mail is sent, and placeOrder ends with error = true after failing the order
\* through OrderMgr.failOrder.
C6_PlacementError ==
    placeOrderStatus = "ERROR" =>
        /\ giftCertificates = <<>>
        /\ emails = <<>>
        /\ pc \in {"catch", "done"}
        /\ pc = "done" => (result.error /\ failOrderCalls = 1 /\ orderStatus = "failed")

\* placeOrder has returned for an order with gift certificate line items whose
\* placement returned the error status.
C6_Witness ==
    /\ placeOrderStatus = "ERROR"
    /\ pc = "done"
    /\ Len(lineItems) > 0

\* ------------------------------------------------------------------------ C7
\* C7: after a placeOrder that returns error = false, there is one gift certificate per
\* gift certificate line item, in order, its balance the net price of the line item, and
\* one e-mail per gift certificate, to its recipient.
C7_OneCertificatePerLineItem ==
    (pc = "done" /\ ~result.error) =>
        /\ Len(giftCertificates) = Len(lineItems)
        /\ \A i \in 1..Len(lineItems) :
               /\ giftCertificates[i].lineItem = i
               /\ giftCertificates[i].balance = lineItems[i].netPrice
        /\ Len(emails) = Len(giftCertificates)
        /\ \A i \in 1..Len(giftCertificates) :
               /\ emails[i].giftCertificate = i
               /\ emails[i].to = lineItems[i].recipientEmail

\* A successful placeOrder of an order with two line items of different prices, taxed,
\* for different recipients.
C7_Witness ==
    /\ pc = "done"
    /\ ~result.error
    /\ Len(lineItems) = 2
    /\ lineItems[1].netPrice # lineItems[2].netPrice
    /\ lineItems[1].tax = 1
    /\ lineItems[1].recipientEmail # lineItems[2].recipientEmail

\* ------------------------------------------------------------------------ C8
\* C8: when sending a gift certificate e-mail fails after the placement and the creation
\* of the gift certificates succeeded, the order stays placed, OrderMgr.failOrder is not
\* called and placeOrder returns error = false.
C8_EmailFailureNotFatal ==
    (pc = "done" /\ caught = "sendEmail") =>
        /\ orderStatus = "placed"
        /\ failOrderCalls = 0
        /\ ~result.error

\* ------------------------------------------------------------------------ C9
\* C9: the transaction is committed only once every line item has its gift certificate,
\* and no e-mail is sent before that commit.
C9_CommitBeforeEmails ==
    /\ txCommitted => Len(giftCertificates) = Len(lineItems)
    /\ emails # <<>> => txCommitted

\* ----------------------------------------------------------------------- C10
\* C10: when a step between Transaction.begin and Transaction.commit raises, placeOrder
\* returns error = true with the transaction it began closed without a commit, and with
\* OrderMgr.failOrder called once, in a transaction of its own.
C10_AbortAndFailOrder ==
    (pc = "done" /\ caught # "none") =>
        /\ result.error
        /\ failOrderCalls = 1
        /\ failOrderDepth = 1
        /\ txDepth = 0
        /\ ~txCommitted

\* ----------------------------------------------------------------------- C11
\* C11: a reader outside the transaction sees either the order as it was before
\* placeOrder, with no gift certificate, or the order placed with one gift certificate
\* per gift certificate line item; never a placed order short of a gift certificate, nor
\* a gift certificate of an order that is not placed.
C11_NoPartialCommit ==
    \/ /\ visible.orderStatus = "created"
       /\ visible.giftCertificates = <<>>
    \/ /\ visible.orderStatus = "placed"
       /\ Len(visible.giftCertificates) = Len(lineItems)
       /\ \A i \in 1..Len(lineItems) : visible.giftCertificates[i].lineItem = i

\* placeOrder has failed after it created a gift certificate inside the transaction, for
\* an order with two line items: the reader still sees the order as it was.
C11_Witness ==
    /\ pc = "done"
    /\ result.error
    /\ Len(lineItems) = 2
    /\ Len(giftCertificates) >= 1
    /\ orderStatus = "failed"
    /\ visible.orderStatus = "created"

\* ----------------------------------------------------------------------- C12
\* C12: every placeOrder call leaves its intermediate positions and returns, with the
\* order either placed or failed, and error = true exactly when the order is failed.
C12_EndsPlacedOrFailed ==
    /\ [](pc = "done" =>
            /\ orderStatus \in {"placed", "failed"}
            /\ result.error <=> orderStatus = "failed")
    /\ [](pc = "idle" => orderStatus = "created")
    /\ <>(pc = "done")

\* placeOrder has returned error = true for an order that OrderMgr.placeOrder had placed.
C12_Witness ==
    /\ pc = "done"
    /\ placeOrderStatus = "OK"
    /\ orderStatus = "failed"
    /\ result.error

\* ----------------------------------------------------------------------- C13
\* C13: after a placeOrder that returns error = false the confirmation status is
\* not-confirmed exactly when fraudDetectionStatus.status is "flag", confirmed otherwise,
\* and the export status is ready.
C13_ConfirmationFollowsFraudSignal ==
    (pc = "done" /\ ~result.error) =>
        /\ confirmationStatus = "NOTCONFIRMED" <=> fraudStatus = "flag"
        /\ confirmationStatus = "CONFIRMED" <=> fraudStatus # "flag"
        /\ exportStatus = "READY"

\* A successful placeOrder of a flagged order with a gift certificate line item.
C13_Witness ==
    /\ pc = "done"
    /\ ~result.error
    /\ fraudStatus = "flag"
    /\ confirmationStatus = "NOTCONFIRMED"
    /\ Len(lineItems) > 0

\* ----------------------------------------------------------------------- C14
\* C14: a reconcile keeps every payment instrument of the basket in its place, and changes
\* nothing but the amount of the first instrument that is not a gift certificate one.
C14_ReconcileFrame ==
    [][lastOp'.op = "reconcile" =>
          /\ Len(paymentInstruments') = Len(paymentInstruments)
          /\ \A i \in 1..Len(paymentInstruments) :
                 IF i = FirstOther(paymentInstruments)
                 THEN paymentInstruments'[i] =
                          [paymentInstruments[i] EXCEPT !.amount = paymentInstruments'[i].amount]
                 ELSE paymentInstruments'[i] = paymentInstruments[i]
          /\ UNCHANGED <<totalGrossPrice, balance>>
      ]_vars

\* A reconcile has written the first of two conventional instruments, which a gift
\* certificate instrument precedes; the second keeps another amount.
C14_Witness ==
    /\ lastOp.op = "reconcile"
    /\ ~lastOp.error
    /\ Len(paymentInstruments) = 3
    /\ IsGiftCert(paymentInstruments[1])
    /\ paymentInstruments[1].amount > 0
    /\ ~IsGiftCert(paymentInstruments[2])
    /\ ~IsGiftCert(paymentInstruments[3])
    /\ paymentInstruments[2].amount # paymentInstruments[3].amount

\* ----------------------------------------------------------------------- C15
\* C15: when the write of the amount raises inside reconcile's transaction, reconcile
\* reports the failure and every payment instrument keeps the amount it had.
C15_FailedWriteKeepsAmount ==
    [][(lastOp'.op = "reconcile" /\ lastOp'.raised = "setAmount") =>
          /\ lastOp'.error
          /\ paymentInstruments' = paymentInstruments
      ]_vars

\* A reconcile whose write failed, on a basket whose conventional instrument carries
\* another amount than the open one.
C15_Witness ==
    /\ lastOp.op = "reconcile"
    /\ lastOp.raised = "setAmount"
    /\ lastOp.error
    /\ FirstOther(paymentInstruments) # 0
    /\ paymentInstruments[FirstOther(paymentInstruments)].amount #
           Max(0, totalGrossPrice - SumRedeemed(paymentInstruments))

\* ----------------------------------------------------------------------- C18
\* C18: createGiftCertificatePaymentInstrument called with null ends in a NotFound
\* error outcome and leaves the payment instruments of the basket as they were.
C18_NullCredentialNotFound ==
    [][lastOp'.op = "applyNull" =>
          /\ lastOp'.raised = "NotFound"
          /\ paymentInstruments' = paymentInstruments
      ]_vars

\* ----------------------------------------------------------------------- C20
\* C20: while the basket total has not changed since the basket held a gift certificate
\* instrument, applications and removals leave at most one gift certificate instrument
\* per code, each with an amount between zero and the balance of its gift certificate,
\* and the amounts sum to at most the basket total.
C20_LedgerInvariant ==
    ~repriced =>
        /\ \A code \in Codes :
               Len(GiftCertificatePaymentInstrumentsFor(paymentInstruments, code)) <= 1
        /\ \A i \in 1..Len(paymentInstruments) :
               IsGiftCert(paymentInstruments[i]) =>
                   /\ paymentInstruments[i].amount >= 0
                   /\ paymentInstruments[i].amount <=
                          balance[paymentInstruments[i].giftCertificateCode]
        /\ SumRedeemed(paymentInstruments) <= totalGrossPrice

\* Two gift certificates applied under an unchanged total: the second is cut to what
\* the first left open, below its balance.
C20_Witness ==
    /\ ~repriced
    /\ lastOp.op = "apply"
    /\ Len(GiftCertificatePaymentInstruments(paymentInstruments)) = 2
    /\ SumRedeemed(paymentInstruments) = totalGrossPrice
    /\ \E i \in 1..Len(paymentInstruments) :
           /\ IsGiftCert(paymentInstruments[i])
           /\ paymentInstruments[i].amount <
                  balance[paymentInstruments[i].giftCertificateCode]

\* ----------------------------------------------------------------------- C16
\* The payment instruments that are not bound to gift certificate `code`.
NotBoundTo(pis, code) == SelectSeq(pis, LAMBDA pi : pi.giftCertificateCode # code)

\* C16: a removal leaves no payment instrument bound to the code, duplicates included,
\* keeps every other payment instrument as it was and in its order, changes nothing when
\* no instrument is bound to the code, and changes nothing when it is called again.
C16_RemoveAllAndOnlyTheCode ==
    [][lastOp'.op = "remove" =>
          /\ GiftCertificatePaymentInstrumentsFor(paymentInstruments', lastOp'.code) = <<>>
          /\ paymentInstruments' = NotBoundTo(paymentInstruments, lastOp'.code)
          /\ lastOp'.removed =
                 Len(GiftCertificatePaymentInstrumentsFor(paymentInstruments, lastOp'.code))
          /\ GiftCertificatePaymentInstrumentsFor(paymentInstruments, lastOp'.code) = <<>>
                 => paymentInstruments' = paymentInstruments
          /\ (lastOp.op = "remove" /\ lastOp.code = lastOp'.code)
                 => paymentInstruments' = paymentInstruments
          /\ UNCHANGED <<totalGrossPrice, balance>>
      ]_vars

\* A removal has taken the two payment instruments of a gift certificate off a basket
\* that keeps the other gift certificate and a conventional instrument.
C16_Witness ==
    /\ lastOp.op = "remove"
    /\ lastOp.removed = 2
    /\ HasGiftCert(paymentInstruments)
    /\ FirstOther(paymentInstruments) # 0

\* ----------------------------------------------------------------------- C17
\* C17: when updateGiftCert has edited a line item, the object getGiftLineItemObj builds
\* from that line item carries the from, recipient, recipientEmail, message and amount
\* of the purchase form, and the UUID of the form as lineItemId.
C17_RoundTrip ==
    (cartOp.op = "update" /\ cartOp.result # Null) =>
        \E i \in 1..Len(giftCertificateLineItems) :
            /\ giftCertificateLineItems[i].UUID = cartOp.result
            /\ LET obj == getGiftLineItemObj(giftCertificateLineItems[i])
               IN  /\ obj.from = cartOp.form.from
                   /\ obj.recipient = cartOp.form.recipient
                   /\ obj.recipientEmail = cartOp.form.recipientEmail
                   /\ obj.message = cartOp.form.message
                   /\ obj.amount = cartOp.form.amount
                   /\ obj.lineItemId = cartOp.form.lineItemId

\* An edit has changed the second of two line items.
C17_Witness ==
    /\ cartOp.op = "update"
    /\ cartOp.changed
    /\ Len(giftCertificateLineItems) = 2
    /\ cartOp.result = giftCertificateLineItems[2].UUID

\* ----------------------------------------------------------------------- C19
\* C19: updateGiftCert with an empty UUID, or one no line item of the basket carries,
\* returns null and leaves every line item as it was; with the UUID of a line item it
\* returns that line item and leaves every other line item as it was.
C19_UpdateOnlyTheMatchingLineItem ==
    [][cartOp'.op = "update" =>
          LET uuid == cartOp'.form.lineItemId
              matching == {i \in 1..Len(giftCertificateLineItems) :
                               giftCertificateLineItems[i].UUID = uuid}
          IN  /\ (empty(uuid) \/ matching = {}) =>
                     /\ cartOp'.result = Null
                     /\ giftCertificateLineItems' = giftCertificateLineItems
              /\ (~empty(uuid) /\ matching # {}) =>
                     /\ cartOp'.result = uuid
                     /\ Len(giftCertificateLineItems') = Len(giftCertificateLineItems)
                     /\ \A i \in 1..Len(giftCertificateLineItems) :
                            /\ giftCertificateLineItems'[i].UUID =
                                   giftCertificateLineItems[i].UUID
                            /\ i \notin matching =>
                                   giftCertificateLineItems'[i] = giftCertificateLineItems[i]
      ]_vars

\* An edit with a UUID that no line item carries has returned null on a cart of two line
\* items.
C19_Witness ==
    /\ cartOp.op = "update"
    /\ cartOp.result = Null
    /\ cartOp.form.lineItemId = "u0"
    /\ Len(giftCertificateLineItems) = 2

\* ----------------------------------------------------------------------- C21
\* C21: once a reconciliation has succeeded on a basket with exactly one other payment
\* instrument and gift certificate amounts of at most the total, that reconciliation and
\* every later successful one, whatever applications and removals come between, leave
\* the amounts of all payment instruments summing to the total.
C21_AmountsSumToTotal ==
    (settled /\ lastOp.op = "reconcile" /\ ~lastOp.error) =>
        SumAmounts(paymentInstruments) = totalGrossPrice

\* ----------------------------------------------------------------------- C22
\* C22: whichever copy of createGiftCertificatePaymentInstrument or of
\* removeGiftCertificatePaymentInstrument is called, the other copy, called on the same
\* basket with the same gift certificate, leaves the same payment instruments with the
\* same amounts. (A step that leaves txDepth alone is a helper call or the billing step.)
C22_CopiesAgree ==
    [][/\ (lastOp'.op \in {"checkoutHelpers.create", "giftCertHelpers.create"}
           /\ UNCHANGED txDepth) =>
              /\ paymentInstruments' =
                     checkoutHelpers_createGiftCertificatePaymentInstrument(
                         paymentInstruments, totalGrossPrice, lastOp'.code,
                         balance[lastOp'.code], txDepth).pis
              /\ paymentInstruments' =
                     giftCertHelpers_createGiftCertificatePaymentInstrument(
                         paymentInstruments, totalGrossPrice, lastOp'.code,
                         balance[lastOp'.code], txDepth).pis
       /\ (lastOp'.op \in {"checkoutHelpers.remove", "giftCertHelpers.remove"}
           /\ UNCHANGED txDepth) =>
              /\ paymentInstruments' =
                     checkoutHelpers_removeGiftCertificatePaymentInstrument(
                         paymentInstruments, lastOp'.code, txDepth).pis
              /\ paymentInstruments' =
                     giftCertHelpers_removeGiftCertificatePaymentInstrument(
                         paymentInstruments, lastOp'.code, txDepth).pis
      ]_vars

\* ----------------------------------------------------------------------- C23
\* C23: whatever the current basket is, none included, the MiniCart handler completes
\* (it sets the view data and calls next()) and quantityTotal is the product quantity
\* total of the basket plus the number of its gift certificate line items, 0 when there
\* is no basket.
C23_MiniCartCompletes ==
    miniCart.op = "MiniCart" =>
        /\ miniCart.raised = "none"
        /\ miniCart.viewData
        /\ miniCart.next
        /\ miniCart.quantityTotal =
               IF currentBasket = Null THEN 0
               ELSE productQuantityTotal + Len(giftCertificateLineItems)

====
